---- MODULE Spec2Model ----
(***************************************************************************)
(* ScrollView of ink-scroll-view (the useStateRef variant with the lazy    *)
(* offset cache), as a state machine.                                      *)
(*                                                                         *)
(* The component is driven by React: a render captures the state values in *)
(* closures, the commit runs the layout effects (item measurements in      *)
(* index order, then the viewport measurement), and the passive effects    *)
(* (children-change effect, clamp effect) run later, before the next       *)
(* render.  Callers reach the component through the imperative handle,     *)
(* which reads and writes the refs, at any point between those steps.      *)
(* A render is caused by the component's own state updates (Render) or by  *)
(* the parent, which then passes a new children array (ParentRender).      *)
(*                                                                         *)
(* Children carry unique keys (ScrollViewProps.children).  A React key k   *)
(* and the fallback index k name the same property of the heights record,  *)
(* so both are the natural number k here.                                  *)
(*                                                                         *)
(* handleItemMeasure calls the parent's onItemHeightChange in the middle of *)
(* its body; a parent that queries the handle from that callback sees the  *)
(* state of that point (CommitToCallback .. CallbackReturn).               *)
(***************************************************************************)
EXTENDS Integers, Sequences, FiniteSets, TLC

\* ---------------------------------------------------------------- bounds
MaxLen == 3
NumKeys == 3
SmallLen == 2
MaxHeight == 2
MaxViewport == 2
MaxArg == 5
MaxGen == 1

Keys == 0 .. (NumKeys - 1)
Indices == 0 .. (MaxLen - 1)
Heights == 1 .. MaxHeight
ViewportHeights == 0 .. MaxViewport
Widths == {1}

\* ------------------------------------------------------- JS number values
\* scrollTo / scrollBy take any JS number; only the scroll offset can hold a
\* non-finite value, all heights are finite integers.
Num(n) == [fin |-> TRUE, v |-> n]
NaN == [fin |-> FALSE, v |-> 0]
PosInf == [fin |-> FALSE, v |-> 1]
NegInf == [fin |-> FALSE, v |-> -1]

IsNaN(x) == x = NaN
IsFinite(x) == x.fin

\* a < b
JsLt(a, b) ==
  /\ ~IsNaN(a)
  /\ ~IsNaN(b)
  /\ \/ a = NegInf /\ b # NegInf
     \/ b = PosInf /\ a # PosInf
     \/ a.fin /\ b.fin /\ a.v < b.v

\* a > b
JsGt(a, b) == JsLt(b, a)

MathMin(a, b) ==
  IF IsNaN(a) \/ IsNaN(b) THEN NaN ELSE IF JsLt(b, a) THEN b ELSE a

MathMax(a, b) ==
  IF IsNaN(a) \/ IsNaN(b) THEN NaN ELSE IF JsGt(b, a) THEN b ELSE a

JsAdd(a, b) ==
  IF IsNaN(a) \/ IsNaN(b) THEN NaN
  ELSE IF a.fin /\ b.fin THEN Num(a.v + b.v)
  ELSE IF a.fin THEN b
  ELSE IF b.fin THEN a
  ELSE IF a = b THEN a
  ELSE NaN

\* a - b
JsSub(a, b) ==
  JsAdd(a, IF IsNaN(b) THEN NaN ELSE IF b.fin THEN Num(0 - b.v)
           ELSE IF b = PosInf THEN NegInf ELSE PosInf)

\* a !== b
StrictNeq(a, b) == IsNaN(a) \/ IsNaN(b) \/ a # b

ScrollArgs == {Num(-1), Num(0), Num(1), Num(MaxArg), NaN, PosInf, NegInf}

\* ----------------------------------------------------------------- state
VARIABLES
  children,        \* keys of the children of the last render, in order
  rendered,        \* host layout: height measureElement returns for each child
  hostViewport,    \* host layout: size measureElement returns for the viewport box
  scrollOffset,    \* useStateRef scrollOffset (ref value)
  contentHeight,   \* useStateRef contentHeight (ref value)
  viewportSize,    \* useStateRef viewportSize (ref value)
  itemMeasureKeys, \* useState itemMeasureKeys, 0 for an absent entry
  itemHeightsRef,  \* itemHeightsRef.current, a record slot -> height
  itemKeysRef,     \* itemKeysRef.current
  itemOffsetsRef,  \* itemOffsetsRef.current
  firstInvalidOffsetIndexRef,
  mounted,         \* the first commit has happened, the handle exists
  needsRender,     \* a state update or new props are waiting for a render
  rWidth,          \* values captured by the last render
  rMeasureKeys,
  rScrollOffset,
  rContentHeight,
  pendingChildren, \* children-change effect scheduled, not yet run
  pendingClamp,    \* clamp effect scheduled, not yet run
  inCallback,      \* handleItemMeasure(index) is inside onItemHeightChange;
                   \* rest: the item layout effects still to run
  maxScrollOffset, \* useState maxScrollOffset of the useState ScrollView
  rMaxScrollOffset, \* the values its last render captured
  rViewportSize,
  pendingViewport, \* its viewport effect scheduled, not yet run
  pendingMax,      \* its max-offset effect scheduled, not yet run
  prevContentHeightRef, \* ControlledScrollView: content height last reported
  contentNotice,   \* the parent's record of the last onContentHeightChange
  internalSelectedIndex,   \* ScrollList: useState internalSelectedIndex
  controlledSelectedIndex, \* its selectedIndex prop: << >> or << index >>
  rSelectedIndex,  \* selectedIndex of its last render
  immediates,      \* the setImmediate callbacks not yet run: scrollToItem calls
  listLast,        \* the last call of its handle: result and notifications
  last             \* the component's last step: operation, argument, its
                   \* onScroll calls

vars == << children, rendered, hostViewport, scrollOffset,
           contentHeight, viewportSize, itemMeasureKeys, itemHeightsRef,
           itemKeysRef, itemOffsetsRef, firstInvalidOffsetIndexRef, mounted,
           needsRender, rWidth, rMeasureKeys, rScrollOffset,
           rContentHeight, pendingChildren, pendingClamp, inCallback,
           maxScrollOffset, rMaxScrollOffset, rViewportSize,
           pendingViewport, pendingMax, prevContentHeightRef,
           contentNotice, internalSelectedIndex, controlledSelectedIndex,
           rSelectedIndex, immediates, listLast, last >>

envVars == << rendered, hostViewport >>
scrollVars == << scrollOffset >>
tableVars == << itemHeightsRef, itemKeysRef, contentHeight >>
cacheVars == << itemOffsetsRef, firstInvalidOffsetIndexRef >>
closureVars == << maxScrollOffset, rMaxScrollOffset, rViewportSize,
                 pendingViewport, pendingMax >>
controlledVars == << prevContentHeightRef, contentNotice >>
listVars == << internalSelectedIndex, controlledSelectedIndex,
              rSelectedIndex, immediates, listLast >>
extVars == << controlledVars, listVars >>
renderVars == << children, rWidth, rMeasureKeys, rScrollOffset,
                 rContentHeight, pendingChildren, pendingClamp, mounted,
                 inCallback >>

Distinct(s) == \A i, j \in 1 .. Len(s) : i # j => s[i] # s[j]

\* children arrays: sequences of distinct keys
KeySeqs ==
  {s \in UNION {[1 .. n -> Keys] : n \in 0 .. MaxLen} : Distinct(s)}

\* the short children arrays, over the first SmallLen keys
SmallSeqs ==
  {s \in KeySeqs : Len(s) <= SmallLen /\ \A i \in 1 .. Len(s) : s[i] < SmallLen}

\* no call of the ScrollList handle yet
NoCall == [op |-> "init", arg |-> 0, ret |-> 0, notified |-> << >>]

\* no onContentHeightChange call received yet
NoNotice == [any |-> FALSE, newHeight |-> 0, previousHeight |-> 0]

NoCallback == [active |-> FALSE, index |-> 0, rest |-> << >>]

\* the record of a step of the component; rep: the step is a scrollTo call
\* that directly follows a scrollTo call with the same argument
Step(op, arg, fired) ==
  [op |-> op, arg |-> arg, fired |-> fired,
   rep |-> (op = "scrollTo" /\ last.op = op /\ last.arg = arg)]

Init ==
  /\ children = << >>
  /\ rendered = [k \in Keys |-> 1]
  /\ hostViewport = [width |-> 1, height |-> 1]
  /\ scrollOffset = Num(0)
  /\ contentHeight = 0
  /\ viewportSize = [width |-> 0, height |-> 0]
  /\ itemMeasureKeys = [i \in Indices |-> 0]
  /\ itemHeightsRef = << >>
  /\ itemKeysRef = << >>
  /\ itemOffsetsRef = << >>
  /\ firstInvalidOffsetIndexRef = 0
  /\ mounted = FALSE
  /\ needsRender = TRUE
  /\ rWidth = 0
  /\ rMeasureKeys = [i \in Indices |-> 0]
  /\ rScrollOffset = Num(0)
  /\ rContentHeight = 0
  /\ pendingChildren = FALSE
  /\ pendingClamp = FALSE
  /\ inCallback = NoCallback
  /\ maxScrollOffset = 0
  /\ rMaxScrollOffset = 0
  /\ rViewportSize = [width |-> 0, height |-> 0]
  /\ pendingViewport = FALSE
  /\ pendingMax = FALSE
  /\ prevContentHeightRef = 0
  /\ contentNotice = NoNotice
  /\ internalSelectedIndex = 0
  /\ controlledSelectedIndex = << >>
  /\ rSelectedIndex = 0
  /\ immediates = << >>
  /\ listLast = NoCall
  /\ last = [op |-> "init", arg |-> Num(0), fired |-> << >>, rep |-> FALSE]

\* ------------------------------------------------------------- helpers
Min(a, b) == IF a < b THEN a ELSE b
Max(a, b) == IF a > b THEN a ELSE b

Range(s) == {s[i] : i \in 1 .. Len(s)}

\* position (0-based) of key k in the children array s
IndexOf(s, k) == CHOOSE i \in 0 .. (Len(s) - 1) : s[i + 1] = k

\* itemHeightsRef.current[slot] || 0
HeightOf(hs, slot) == IF slot \in DOMAIN hs THEN hs[slot] ELSE 0

\* itemKeysRef.current[index] || index   (React keys are non-empty strings)
SlotAt(keys, index) ==
  IF index >= 0 /\ index < Len(keys) THEN keys[index + 1] ELSE index

\* { ...itemHeightsRef.current, [slot]: h }
SetHeight(hs, slot, h) ==
  [s \in (DOMAIN hs) \cup {slot} |-> IF s = slot THEN h ELSE hs[s]]

\* getItemHeight(index)
GetItemHeight(index) == HeightOf(itemHeightsRef, SlotAt(itemKeysRef, index))

\* getViewportHeight()
GetViewportHeight == viewportSize.height

\* ------------------------------------------------ handleItemMeasure
\* st = [hs, ch, fi]: heights record, content height, first invalid index.
HandleItemMeasure(st, keys, index, height) ==
  LET key == SlotAt(keys, index) IN
  IF key \notin DOMAIN st.hs \/ st.hs[key] # height
  THEN LET previousHeight == HeightOf(st.hs, key)
           delta == height - previousHeight
       IN [hs |-> SetHeight(st.hs, key, height),
           ch |-> st.ch + delta,
           fi |-> Min(st.fi, index + 1)]
  ELSE st

\* the layout effects of the MeasurableItems that fire in one commit, in
\* index order; idxs is the ascending sequence of their indices
RECURSIVE MeasureItems(_, _, _, _)
MeasureItems(st, keys, kids, idxs) ==
  IF idxs = << >> THEN st
  ELSE MeasureItems(
         HandleItemMeasure(st, keys, Head(idxs), rendered[kids[Head(idxs) + 1]]),
         keys, kids, Tail(idxs))

\* the onItemHeightChange calls of the item layout effects idxs, in order:
\* << index, height, previousHeight >> for each measurement that differs
\* from the entry of its slot
RECURSIVE HeightChanges(_, _, _, _)
HeightChanges(st, keys, kids, idxs) ==
  IF idxs = << >> THEN << >>
  ELSE LET index == Head(idxs)
           height == rendered[kids[index + 1]]
           key == SlotAt(keys, index)
           fires == key \notin DOMAIN st.hs \/ st.hs[key] # height
       IN (IF fires THEN << << index, height, HeightOf(st.hs, key) >> >>
           ELSE << >>)
          \o HeightChanges(HandleItemMeasure(st, keys, index, height),
                           keys, kids, Tail(idxs))

\* MeasurableItem's useLayoutEffect deps [index, onMeasure, width, measureKey]:
\* the effect of the child at index i runs on mount and when a dep changed
\* (kids: the children of this render; children: those of the previous one)
EffectFires(kids, i) ==
  LET k == kids[i + 1] IN
  \/ k \notin Range(children)
  \/ IndexOf(children, k) # i
  \/ viewportSize.width # rWidth
  \/ itemMeasureKeys[i] # rMeasureKeys[i]

RECURSIVE FiringIndices(_, _)
FiringIndices(kids, i) ==
  IF i >= Len(kids) THEN << >>
  ELSE IF EffectFires(kids, i) THEN << i >> \o FiringIndices(kids, i + 1)
  ELSE FiringIndices(kids, i + 1)

\* measureViewport: the size stored after the call
MeasureViewport(size) == IF hostViewport # size THEN hostViewport ELSE size

\* the onItemHeightChange calls a render of kids makes from this state
OnItemHeightChange(kids) ==
  HeightChanges([hs |-> itemHeightsRef, ch |-> contentHeight,
                 fi |-> firstInvalidOffsetIndexRef],
                itemKeysRef, kids, FiringIndices(kids, 0))

\* ------------------------------------------------------------ the commit
\* the render: the values its closures capture and the passive effects it
\* schedules; fresh: kids is a new array
CommitSnapshot(kids, fresh) ==
  /\ children' = kids
  /\ rWidth' = viewportSize.width
  /\ rMeasureKeys' = itemMeasureKeys
  /\ rScrollOffset' = scrollOffset
  /\ rContentHeight' = contentHeight
  /\ pendingChildren' = (fresh \/ ~mounted)
  /\ pendingClamp' = \/ ~mounted
                     \/ contentHeight # rContentHeight
                     \/ scrollOffset # rScrollOffset
  /\ mounted' = TRUE

\* the end of the layout phase: st is the table after the item layout
\* effects, rch the content height the render saw; then measureViewport
FinishLayout(st, rch) ==
  LET size == MeasureViewport(viewportSize)
  IN /\ itemHeightsRef' = st.hs
     /\ contentHeight' = st.ch
     /\ firstInvalidOffsetIndexRef' = st.fi
     /\ viewportSize' = size
     /\ needsRender' = (st.ch # rch \/ size # viewportSize)

\* render + layout effects (item measurements, then measureViewport) of a
\* render with the children kids
Commit(kids, fresh) ==
  /\ ~inCallback.active
  /\ ~pendingChildren
  /\ ~pendingClamp
  /\ LET st0 == [hs |-> itemHeightsRef, ch |-> contentHeight,
                 fi |-> firstInvalidOffsetIndexRef]
         st1 == MeasureItems(st0, itemKeysRef, kids, FiringIndices(kids, 0))
     IN FinishLayout(st1, contentHeight)
  /\ CommitSnapshot(kids, fresh)
  /\ last' = Step("commit", Num(0), << >>)
  /\ UNCHANGED << closureVars, extVars, rendered, hostViewport, scrollOffset, itemMeasureKeys,
                  itemKeysRef, itemOffsetsRef, inCallback >>

\* the same render, up to the onItemHeightChange call of the n-th item
\* layout effect: the heights record and the content height are updated,
\* the offset cache is not yet invalidated
CommitToCallback(kids, fresh) ==
  /\ ~inCallback.active
  /\ ~pendingChildren
  /\ ~pendingClamp
  /\ LET idxs == FiringIndices(kids, 0)
         st0 == [hs |-> itemHeightsRef, ch |-> contentHeight,
                 fi |-> firstInvalidOffsetIndexRef]
     IN \E n \in 1 .. Len(idxs) :
          LET before == MeasureItems(st0, itemKeysRef, kids,
                                     SubSeq(idxs, 1, n - 1))
              index == idxs[n]
              at == HandleItemMeasure(before, itemKeysRef, index,
                                      rendered[kids[index + 1]])
          IN /\ at.hs # before.hs
             /\ itemHeightsRef' = at.hs
             /\ contentHeight' = at.ch
             /\ firstInvalidOffsetIndexRef' = before.fi
             /\ inCallback' = [active |-> TRUE, index |-> index,
                               rest |-> SubSeq(idxs, n + 1, Len(idxs))]
             /\ last' = Step("onItemHeightChange", Num(index), << >>)
  /\ CommitSnapshot(kids, fresh)
  /\ UNCHANGED << closureVars, extVars, rendered, hostViewport, scrollOffset, itemMeasureKeys,
                  itemKeysRef, itemOffsetsRef, viewportSize, needsRender >>

\* onItemHeightChange returns: the cache invalidation of that measurement,
\* the remaining item layout effects, measureViewport
CallbackReturn ==
  /\ inCallback.active
  /\ LET st0 == [hs |-> itemHeightsRef, ch |-> contentHeight,
                 fi |-> Min(firstInvalidOffsetIndexRef, inCallback.index + 1)]
         st1 == MeasureItems(st0, itemKeysRef, children, inCallback.rest)
     IN FinishLayout(st1, rContentHeight)
  /\ inCallback' = NoCallback
  /\ last' = Step("commit", Num(0), << >>)
  /\ UNCHANGED << closureVars, extVars, rendered, hostViewport, scrollOffset, itemMeasureKeys,
                  itemKeysRef, itemOffsetsRef, children, rWidth,
                  rMeasureKeys, rScrollOffset, rContentHeight,
                  pendingChildren, pendingClamp, mounted >>

\* a render caused by the component's own state updates
Render ==
  /\ mounted
  /\ needsRender
  /\ Commit(children, FALSE)

\* the parent renders the ScrollView (the first time: mounts it) and passes
\* a new children array
ParentRender(kids) == Commit(kids, TRUE)

\* the two renders, with a parent that queries the handle in the callback
RenderToCallback ==
  /\ mounted
  /\ needsRender
  /\ CommitToCallback(children, FALSE)

ParentRenderToCallback(kids) == CommitToCallback(kids, TRUE)

\* ------------------------------------------------- children-change effect
\* reg = [keys, hs, ch]; one iteration of React.Children.forEach
RegisterChild(reg, old, key, index) ==
  IF key \notin DOMAIN reg.hs
  THEN LET itemHeight == HeightOf(old, key)
       IN [keys |-> Append(reg.keys, key),
           hs |-> SetHeight(reg.hs, key, itemHeight),
           ch |-> reg.ch + itemHeight]
  ELSE [keys |-> Append(reg.keys, index),
        hs |-> SetHeight(reg.hs, index, 0),
        ch |-> reg.ch]

RECURSIVE RebuildRegistry(_, _, _, _)
RebuildRegistry(reg, old, kids, index) ==
  IF index >= Len(kids) THEN reg
  ELSE RebuildRegistry(RegisterChild(reg, old, kids[index + 1], index),
                       old, kids, index + 1)

ChildrenEffect(kids) ==
  RebuildRegistry([keys |-> << >>, hs |-> << >>, ch |-> 0],
                  itemHeightsRef, kids, 0)

\* ----------------------------------------------------------- clamp effect
\* runs with the scrollOffset and contentHeight the render captured
\* the bound the effect compares the offset with and snaps it to
ClampBound_Max == Max(0, rContentHeight - viewportSize.height)

ClampBound == rContentHeight

ClampFires == JsGt(rScrollOffset, Num(ClampBound))

ClampTarget == Num(ClampBound)

\* the passive effects of the last commit, in declaration order
FlushPassive ==
  /\ ~inCallback.active
  /\ pendingChildren \/ pendingClamp
  /\ LET reg == ChildrenEffect(children)
         ch1 == IF pendingChildren THEN reg.ch ELSE contentHeight
         clamp == pendingClamp /\ ClampFires
         so1 == IF clamp THEN ClampTarget ELSE scrollOffset
     IN /\ IF pendingChildren
           THEN /\ itemHeightsRef' = reg.hs
                /\ itemKeysRef' = reg.keys
                /\ itemOffsetsRef' = [i \in 1 .. Len(reg.keys) |-> 0]
                /\ firstInvalidOffsetIndexRef' = 0
           ELSE UNCHANGED << itemHeightsRef, itemKeysRef, itemOffsetsRef,
                             firstInvalidOffsetIndexRef >>
        /\ contentHeight' = ch1
        /\ scrollOffset' = so1
        /\ needsRender' = (needsRender \/ ch1 # rContentHeight
                                       \/ so1 # rScrollOffset)
        /\ last' = Step("effects", Num(0),
                        IF clamp THEN << ClampTarget >> ELSE << >>)
  /\ pendingChildren' = FALSE
  /\ pendingClamp' = FALSE
  /\ UNCHANGED << closureVars, extVars, envVars, viewportSize, itemMeasureKeys, mounted,
                  children, rWidth, rMeasureKeys, rScrollOffset,
                  rContentHeight, inCallback >>

\* ------------------------------------------------------ imperative handle
\* setScrollOffset(v); onScroll?.(v)
SetScrollOffset(op, arg, v) ==
  /\ scrollOffset' = v
  /\ needsRender' = (needsRender \/ v # rScrollOffset)
  /\ last' = Step(op, arg, << v >>)

NoScroll(op, arg) ==
  /\ last' = Step(op, arg, << >>)
  /\ UNCHANGED << scrollOffset, needsRender >>

ScrollToTarget_Max(offset) ==
  MathMax(Num(0),
          MathMin(offset, Num(Max(0, contentHeight - viewportSize.height))))

\* Math.max(0, Math.min(offset, currentContentHeight))
ScrollToTarget(offset) ==
  MathMax(Num(0), MathMin(offset, Num(contentHeight)))

ScrollTo(offset) ==
  /\ mounted
  /\ ~inCallback.active
  /\ LET newScrollTop == ScrollToTarget(offset)
     IN IF StrictNeq(newScrollTop, scrollOffset)
        THEN SetScrollOffset("scrollTo", offset, newScrollTop)
        ELSE NoScroll("scrollTo", offset)
  /\ UNCHANGED << envVars, tableVars, cacheVars, renderVars, closureVars, extVars, viewportSize,
                  itemMeasureKeys >>

ScrollBy(delta) ==
  /\ mounted
  /\ ~inCallback.active
  /\ LET newScrollTop == ScrollToTarget(JsAdd(scrollOffset, delta))
     IN IF StrictNeq(newScrollTop, scrollOffset)
        THEN SetScrollOffset("scrollBy", delta, newScrollTop)
        ELSE NoScroll("scrollBy", delta)
  /\ UNCHANGED << envVars, tableVars, cacheVars, renderVars, closureVars, extVars, viewportSize,
                  itemMeasureKeys >>

ScrollToTop ==
  /\ mounted
  /\ ~inCallback.active
  /\ IF StrictNeq(scrollOffset, Num(0))
     THEN SetScrollOffset("scrollToTop", Num(0), Num(0))
     ELSE NoScroll("scrollToTop", Num(0))
  /\ UNCHANGED << envVars, tableVars, cacheVars, renderVars, closureVars, extVars, viewportSize,
                  itemMeasureKeys >>

BottomOffset_Content == Num(contentHeight)

\* Math.max(0, getContentHeight() - getViewportSize().height)
BottomOffset == Num(Max(0, contentHeight - viewportSize.height))

ScrollToBottom ==
  /\ mounted
  /\ ~inCallback.active
  /\ IF StrictNeq(scrollOffset, BottomOffset)
     THEN SetScrollOffset("scrollToBottom", Num(0), BottomOffset)
     ELSE NoScroll("scrollToBottom", Num(0))
  /\ UNCHANGED << envVars, tableVars, cacheVars, renderVars, closureVars, extVars, viewportSize,
                  itemMeasureKeys >>

\* remeasure: measureViewport
Remeasure ==
  /\ mounted
  /\ ~inCallback.active
  /\ viewportSize' = MeasureViewport(viewportSize)
  /\ needsRender' = (needsRender \/ viewportSize' # viewportSize)
  /\ last' = Step("remeasure", Num(0), << >>)
  /\ UNCHANGED << envVars, scrollVars, tableVars, cacheVars, renderVars, closureVars, extVars,
                  itemMeasureKeys >>

BumpMeasureKey_All(prev, index) == [i \in DOMAIN prev |-> prev[i] + 1]

\* the updater of setItemMeasureKeys: {...prev, [index]: (prev[index] || 0) + 1}
BumpMeasureKey(prev, index) == [prev EXCEPT ![index] = @ + 1]

\* remeasureItem(index): bump the item's measure key
RemeasureItem(index) ==
  /\ mounted
  /\ ~inCallback.active
  /\ itemMeasureKeys[index] < MaxGen
  /\ itemMeasureKeys' = BumpMeasureKey(itemMeasureKeys, index)
  /\ needsRender' = TRUE
  /\ last' = Step("remeasureItem", Num(index), << >>)
  /\ UNCHANGED << envVars, scrollVars, tableVars, cacheVars, renderVars, closureVars, extVars,
                  viewportSize >>

\* getItemPosition(index): the lazy update of the offset cache.
\* The loop of lines 536-541, from index i with running offset cur.
RECURSIVE FillOffsets(_, _, _, _)
FillOffsets(offs, i, index, cur) ==
  IF i > index THEN offs
  ELSE FillOffsets([offs EXCEPT ![i + 1] = cur], i + 1, index,
                   cur + GetItemHeight(i))

PositionCache(index) ==
  IF index >= firstInvalidOffsetIndexRef
  THEN LET fi == firstInvalidOffsetIndexRef
           startIndex == IF fi > 0 THEN fi ELSE 0
           currentOffset ==
             IF fi > 0 THEN itemOffsetsRef[fi] + GetItemHeight(fi - 1) ELSE 0
       IN [offs |-> FillOffsets(itemOffsetsRef, startIndex, index, currentOffset),
           fi |-> index + 1]
  ELSE [offs |-> itemOffsetsRef, fi |-> firstInvalidOffsetIndexRef]

InRange(index) == index >= 0 /\ index < Len(itemKeysRef)

\* the value getItemPosition(index) returns: << >> for null, else <<top, height>>
ItemPosition(index) ==
  IF ~InRange(index) THEN << >>
  ELSE << PositionCache(index).offs[index + 1], GetItemHeight(index) >>

GetItemPosition(index) ==
  /\ mounted
  /\ IF InRange(index)
     THEN /\ itemOffsetsRef' = PositionCache(index).offs
          /\ firstInvalidOffsetIndexRef' = PositionCache(index).fi
     ELSE UNCHANGED cacheVars
  /\ last' = Step("getItemPosition", Num(index), << >>)
  /\ UNCHANGED << envVars, scrollVars, tableVars, renderVars, closureVars, extVars, viewportSize,
                  itemMeasureKeys, needsRender >>

\* ------------------------------------------------------------ environment
\* a child changes its rendered height by itself (internal state); neither
\* the ScrollView nor the MeasurableItem re-renders
ContentResize(k, h) ==
  /\ ~inCallback.active
  /\ rendered[k] # h
  /\ rendered' = [rendered EXCEPT ![k] = h]
  /\ UNCHANGED << hostViewport, scrollVars, tableVars, cacheVars,
                  renderVars, closureVars, extVars, viewportSize, itemMeasureKeys, needsRender,
                  last >>

\* the viewport box gets a new size (terminal resize, parent layout); React
\* does not see it until the next render or remeasure()
HostResize(size) ==
  /\ ~inCallback.active
  /\ size # hostViewport
  /\ hostViewport' = size
  /\ UNCHANGED << rendered, scrollVars, tableVars, cacheVars, renderVars, closureVars, extVars,
                  viewportSize, itemMeasureKeys, needsRender, last >>

\* ------------------------------------------------------------------ next
Next ==
  \/ Render
  \/ \E kids \in KeySeqs : ParentRender(kids)
  \/ RenderToCallback
  \/ \E kids \in KeySeqs : ParentRenderToCallback(kids)
  \/ CallbackReturn
  \/ FlushPassive
  \/ \E x \in ScrollArgs : ScrollTo(x)
  \/ \E d \in ScrollArgs : ScrollBy(d)
  \/ ScrollToTop
  \/ ScrollToBottom
  \/ Remeasure
  \/ \E i \in Indices : RemeasureItem(i)
  \/ \E i \in (-1) .. MaxLen : GetItemPosition(i)
  \/ \E k \in Keys, h \in Heights : ContentResize(k, h)
  \/ \E size \in [width : Widths, height : ViewportHeights] : HostResize(size)

Spec == Init /\ [][Next]_vars

\* the scroll engine alone: short children arrays whose items keep their
\* height, no onItemHeightChange, no position queries
NextScroll ==
  \/ Render
  \/ \E kids \in SmallSeqs : ParentRender(kids)
  \/ FlushPassive
  \/ \E x \in ScrollArgs : ScrollTo(x)
  \/ \E d \in ScrollArgs : ScrollBy(d)
  \/ ScrollToTop
  \/ ScrollToBottom
  \/ Remeasure
  \/ \E size \in [width : Widths, height : ViewportHeights] : HostResize(size)

SpecScroll == Init /\ [][NextScroll]_vars

\* content and viewport changes under a caller that only scrolls to the two
\* ends
NextReclamp ==
  \/ Render
  \/ \E kids \in SmallSeqs : ParentRender(kids)
  \/ FlushPassive
  \/ ScrollToTop
  \/ ScrollToBottom
  \/ Remeasure
  \/ \E size \in [width : Widths, height : ViewportHeights] : HostResize(size)

SpecReclamp == Init /\ [][NextReclamp]_vars

\* the height table and the offset cache alone, short children arrays: no
\* scrolling, no resize of the viewport
NextLayout ==
  \/ Render
  \/ \E kids \in SmallSeqs : ParentRender(kids)
  \/ RenderToCallback
  \/ \E kids \in SmallSeqs : ParentRenderToCallback(kids)
  \/ CallbackReturn
  \/ FlushPassive
  \/ \E i \in 0 .. (SmallLen - 1) : RemeasureItem(i)
  \/ \E i \in (-1) .. SmallLen : GetItemPosition(i)
  \/ \E k \in 0 .. (SmallLen - 1), h \in Heights : ContentResize(k, h)

SpecLayout == Init /\ [][NextLayout]_vars

\* the sequence changes alone: every child keeps the height it renders with
InitMutation ==
  /\ children = << >>
  /\ rendered \in [Keys -> Heights]
  /\ hostViewport = [width |-> 1, height |-> 1]
  /\ scrollOffset = Num(0)
  /\ contentHeight = 0
  /\ viewportSize = [width |-> 0, height |-> 0]
  /\ itemMeasureKeys = [i \in Indices |-> 0]
  /\ itemHeightsRef = << >>
  /\ itemKeysRef = << >>
  /\ itemOffsetsRef = << >>
  /\ firstInvalidOffsetIndexRef = 0
  /\ mounted = FALSE
  /\ needsRender = TRUE
  /\ rWidth = 0
  /\ rMeasureKeys = [i \in Indices |-> 0]
  /\ rScrollOffset = Num(0)
  /\ rContentHeight = 0
  /\ pendingChildren = FALSE
  /\ pendingClamp = FALSE
  /\ inCallback = NoCallback
  /\ maxScrollOffset = 0
  /\ rMaxScrollOffset = 0
  /\ rViewportSize = [width |-> 0, height |-> 0]
  /\ pendingViewport = FALSE
  /\ pendingMax = FALSE
  /\ prevContentHeightRef = 0
  /\ contentNotice = NoNotice
  /\ internalSelectedIndex = 0
  /\ controlledSelectedIndex = << >>
  /\ rSelectedIndex = 0
  /\ immediates = << >>
  /\ listLast = NoCall
  /\ last = [op |-> "init", arg |-> Num(0), fired |-> << >>, rep |-> FALSE]

NextMutation ==
  \/ Render
  \/ \E kids \in KeySeqs : ParentRender(kids)
  \/ FlushPassive
  \/ \E i \in (-1) .. MaxLen : GetItemPosition(i)

SpecMutation == InitMutation /\ [][NextMutation]_vars

\* remeasureItem under sequence changes: every child keeps the height it
\* renders with
NextRemeasure ==
  \/ Render
  \/ \E kids \in SmallSeqs : ParentRender(kids)
  \/ FlushPassive
  \/ \E i \in 0 .. (SmallLen - 1) : RemeasureItem(i)

SpecRemeasure == InitMutation /\ [][NextRemeasure]_vars

\* ============================================ the useState ScrollView
\* The ScrollView of src/src/ScrollView.tsx: plain useState, a
\* maxScrollOffset state set by an effect, and a handle whose methods close
\* over the values of the last render.

\* onItemMeasure: st = [hs, ch]; a child the registry does not know yet has
\* no key and is skipped
OnItemMeasure(st, keys, index, height) ==
  IF index < Len(keys) /\ HeightOf(st.hs, keys[index + 1]) # height
  THEN LET key == keys[index + 1]
           oldHeight == HeightOf(st.hs, key)
           delta == height - oldHeight
       IN [hs |-> SetHeight(st.hs, key, height), ch |-> st.ch + delta]
  ELSE st

RECURSIVE MeasureItemsV1(_, _, _, _)
MeasureItemsV1(st, keys, kids, idxs) ==
  IF idxs = << >> THEN st
  ELSE MeasureItemsV1(
         OnItemMeasure(st, keys, Head(idxs), rendered[kids[Head(idxs) + 1]]),
         keys, kids, Tail(idxs))

\* Math.max(0, contentHeight - viewportSize.height) of the last render
NewMaxOffset == Max(0, rContentHeight - rViewportSize.height)

\* render + item layout effects; the handle is re-created with the values
\* of this render
CommitV1(kids, fresh) ==
  /\ ~pendingViewport /\ ~pendingMax /\ ~pendingChildren /\ ~pendingClamp
  /\ LET st0 == [hs |-> itemHeightsRef, ch |-> contentHeight]
         st1 == MeasureItemsV1(st0, itemKeysRef, kids, FiringIndices(kids, 0))
     IN /\ itemHeightsRef' = st1.hs
        /\ contentHeight' = st1.ch
        /\ needsRender' = (st1.ch # contentHeight)
  /\ children' = kids
  /\ rWidth' = viewportSize.width
  /\ rMeasureKeys' = itemMeasureKeys
  /\ rScrollOffset' = scrollOffset
  /\ rContentHeight' = contentHeight
  /\ rMaxScrollOffset' = maxScrollOffset
  /\ rViewportSize' = viewportSize
  /\ pendingViewport' = (~mounted \/ viewportSize # rViewportSize)
  /\ pendingMax' = \/ ~mounted
                   \/ contentHeight # rContentHeight
                   \/ viewportSize.height # rViewportSize.height
                   \/ maxScrollOffset # rMaxScrollOffset
  /\ pendingChildren' = (fresh \/ ~mounted)
  /\ pendingClamp' = \/ ~mounted
                     \/ maxScrollOffset # rMaxScrollOffset
                     \/ scrollOffset # rScrollOffset
  /\ mounted' = TRUE
  /\ last' = Step("commit", Num(0), << >>)
  /\ UNCHANGED << envVars, scrollOffset, viewportSize, maxScrollOffset,
                  itemMeasureKeys, itemKeysRef, cacheVars, inCallback,
                  extVars >>

RenderV1 ==
  /\ mounted
  /\ needsRender
  /\ CommitV1(children, FALSE)

ParentRenderV1(kids) == CommitV1(kids, TRUE)

\* the passive effects of the last commit, in declaration order: viewport
\* measurement, max offset, children change, clamp
FlushPassiveV1 ==
  /\ pendingViewport \/ pendingMax \/ pendingChildren \/ pendingClamp
  /\ LET vs1 == IF pendingViewport /\ hostViewport # rViewportSize
                THEN hostViewport ELSE viewportSize
         max1 == IF pendingMax /\ NewMaxOffset # rMaxScrollOffset
                 THEN NewMaxOffset ELSE maxScrollOffset
         reg == ChildrenEffect(children)
         ch1 == IF pendingChildren THEN reg.ch ELSE contentHeight
         clamp == pendingClamp /\ JsGt(rScrollOffset, Num(rMaxScrollOffset))
         so1 == IF clamp THEN Num(rMaxScrollOffset) ELSE scrollOffset
     IN /\ viewportSize' = vs1
        /\ maxScrollOffset' = max1
        /\ IF pendingChildren
           THEN /\ itemHeightsRef' = reg.hs
                /\ itemKeysRef' = reg.keys
           ELSE UNCHANGED << itemHeightsRef, itemKeysRef >>
        /\ contentHeight' = ch1
        /\ scrollOffset' = so1
        /\ needsRender' = \/ needsRender
                          \/ vs1 # rViewportSize
                          \/ max1 # rMaxScrollOffset
                          \/ ch1 # rContentHeight
                          \/ so1 # rScrollOffset
        /\ last' = Step("effects", Num(0),
                        IF clamp THEN << Num(rMaxScrollOffset) >> ELSE << >>)
  /\ pendingViewport' = FALSE
  /\ pendingMax' = FALSE
  /\ pendingChildren' = FALSE
  /\ pendingClamp' = FALSE
  /\ UNCHANGED << envVars, itemMeasureKeys, mounted, children, rWidth,
                  rMeasureKeys, rScrollOffset, rContentHeight,
                  rMaxScrollOffset, rViewportSize, cacheVars, inCallback,
                  extVars >>

\* the handle of the last render
handleVars == << envVars, tableVars, cacheVars, renderVars, viewportSize,
                 itemMeasureKeys, closureVars, extVars >>

\* Math.max(0, Math.min(offset, maxScrollOffset))
ScrollToTargetV1(offset) ==
  MathMax(Num(0), MathMin(offset, Num(rMaxScrollOffset)))

ScrollToV1(offset) ==
  /\ mounted
  /\ LET newScrollTop == ScrollToTargetV1(offset)
     IN IF StrictNeq(newScrollTop, rScrollOffset)
        THEN SetScrollOffset("scrollTo", offset, newScrollTop)
        ELSE NoScroll("scrollTo", offset)
  /\ UNCHANGED handleVars

ScrollByV1(delta) ==
  /\ mounted
  /\ LET newScrollTop == ScrollToTargetV1(JsAdd(rScrollOffset, delta))
     IN IF StrictNeq(newScrollTop, rScrollOffset)
        THEN SetScrollOffset("scrollBy", delta, newScrollTop)
        ELSE NoScroll("scrollBy", delta)
  /\ UNCHANGED handleVars

ScrollToTopV1 ==
  /\ mounted
  /\ IF StrictNeq(rScrollOffset, Num(0))
     THEN SetScrollOffset("scrollToTop", Num(0), Num(0))
     ELSE NoScroll("scrollToTop", Num(0))
  /\ UNCHANGED handleVars

ScrollToBottomV1 ==
  /\ mounted
  /\ IF StrictNeq(rScrollOffset, Num(rMaxScrollOffset))
     THEN SetScrollOffset("scrollToBottom", Num(0), Num(rMaxScrollOffset))
     ELSE NoScroll("scrollToBottom", Num(0))
  /\ UNCHANGED handleVars

GetScrollOffsetV1 == rScrollOffset
GetMaxScrollOffset == rMaxScrollOffset
GetViewportHeightV1 == rViewportSize.height

\* remeasure: compares the host size with the viewportSize of the last render
RemeasureV1 ==
  /\ mounted
  /\ viewportSize' = IF hostViewport # rViewportSize
                     THEN hostViewport ELSE viewportSize
  /\ needsRender' = (needsRender \/ viewportSize' # rViewportSize)
  /\ last' = Step("remeasure", Num(0), << >>)
  /\ UNCHANGED << envVars, scrollVars, tableVars, cacheVars, renderVars,
                  itemMeasureKeys, closureVars, extVars >>

\* the useState ScrollView under a caller that passes numbers
FiniteArgs == {x \in ScrollArgs : IsFinite(x)}

NextClosure ==
  \/ RenderV1
  \/ \E kids \in SmallSeqs : ParentRenderV1(kids)
  \/ FlushPassiveV1
  \/ \E x \in FiniteArgs : ScrollToV1(x)
  \/ \E d \in FiniteArgs : ScrollByV1(d)
  \/ ScrollToTopV1
  \/ ScrollToBottomV1
  \/ RemeasureV1
  \/ \E size \in [width : Widths, height : ViewportHeights] : HostResize(size)

SpecClosure == Init /\ [][NextClosure]_vars

\* ============================================ the index-keyed ScrollView
\* The second ScrollView of src/src/ScrollView.tsx (and src/unnamed/part_019):
\* itemHeights is a state keyed by index, the handle is re-created by every
\* render. Here: its getItemLayout over items that keep their heights.
\* itemHeightsRef holds itemHeights, scrollOffset holds scrollTop (rScrollOffset:
\* the scrollTop of the last render), viewportSize holds viewDimensions.

\* calculateContentHeight / calculateMetrics of the last render
MaxScroll == Max(0, contentHeight - viewportSize.height)

\* top: the heights of the items before index, 0 for an unmeasured one
RECURSIVE LayoutTop(_)
LayoutTop(index) ==
  IF index <= 0 THEN 0
  ELSE LayoutTop(index - 1) + HeightOf(itemHeightsRef, index - 1)

\* the value getItemLayout(index) returns, << >> for null
ItemLayout(index) ==
  IF index < 0 \/ index >= Len(children) THEN << >>
  ELSE IF index \notin DOMAIN itemHeightsRef THEN << >>
  ELSE LET top == LayoutTop(index)
           height == HeightOf(itemHeightsRef, index)
           bottom == top + height
           viewportTop == rScrollOffset
           viewportBottom == JsAdd(rScrollOffset, Num(viewportSize.height))
           isVisible == /\ JsGt(Num(bottom), viewportTop)
                        /\ JsLt(Num(top), viewportBottom)
           visibleTop == MathMax(Num(top), viewportTop)
           visibleBottom == MathMin(Num(bottom), viewportBottom)
           visibleHeight == IF isVisible
                            THEN MathMax(Num(0), JsSub(visibleBottom, visibleTop))
                            ELSE Num(0)
       IN [top |-> top, height |-> height, bottom |-> bottom,
           isVisible |-> isVisible,
           visibleTop |-> JsSub(visibleTop, rScrollOffset),
           visibleHeight |-> visibleHeight]

GetItemLayout(index) ==
  /\ mounted
  /\ last' = Step("getItemLayout", Num(index), << >>)
  /\ UNCHANGED << envVars, scrollVars, tableVars, cacheVars, renderVars,
                  closureVars, extVars, viewportSize, itemMeasureKeys, needsRender >>

\* scrollTo of the handle of the last render
ScrollToCallV2(y) ==
  /\ mounted
  /\ LET newScrollTop == MathMax(Num(0), MathMin(y, Num(MaxScroll)))
     IN IF StrictNeq(newScrollTop, rScrollOffset)
        THEN /\ scrollOffset' = newScrollTop
             /\ needsRender' = TRUE
             /\ last' = Step("scrollTo", y, << newScrollTop >>)
        ELSE NoScroll("scrollTo", y)
  /\ UNCHANGED << envVars, tableVars, cacheVars, renderVars, closureVars,
                  viewportSize, itemMeasureKeys >>

\* scrollTo called by the owner of the ScrollView
ScrollToV2(y) == ScrollToCallV2(y) /\ UNCHANGED extVars

\* the render after setScrollTop, and its clamp effect
RenderCallV2 ==
  /\ mounted
  /\ needsRender
  /\ rScrollOffset' = scrollOffset
  /\ scrollOffset' = IF JsGt(scrollOffset, Num(MaxScroll))
                     THEN Num(MaxScroll) ELSE scrollOffset
  /\ needsRender' = (scrollOffset' # scrollOffset)
  /\ last' = Step("commit", Num(0),
                  IF scrollOffset' # scrollOffset
                  THEN << Num(MaxScroll) >> ELSE << >>)
  /\ UNCHANGED << envVars, tableVars, cacheVars, closureVars, viewportSize,
                  itemMeasureKeys, children, rWidth, rMeasureKeys,
                  rContentHeight, pendingChildren, pendingClamp, mounted,
                  inCallback >>

\* a render of the ScrollView alone
RenderV2 == RenderCallV2 /\ UNCHANGED extVars

\* mounted with n children, some of them measured, in a measured viewport
InitItemLayout ==
  /\ \E n \in 0 .. MaxLen :
       /\ children = [i \in 1 .. n |-> i - 1]
       /\ \E S \in SUBSET (0 .. (n - 1)) :
            itemHeightsRef \in [S -> 0 .. MaxHeight]
  /\ contentHeight = LayoutTop(Len(children))
  /\ rContentHeight = contentHeight
  /\ rendered = [k \in Keys |-> 1]
  /\ \E h \in ViewportHeights :
       /\ viewportSize = [width |-> 1, height |-> h]
       /\ hostViewport = viewportSize
  /\ scrollOffset = Num(0)
  /\ itemMeasureKeys = [i \in Indices |-> 0]
  /\ itemKeysRef = << >>
  /\ itemOffsetsRef = << >>
  /\ firstInvalidOffsetIndexRef = 0
  /\ mounted = TRUE
  /\ needsRender = FALSE
  /\ rWidth = 1
  /\ rMeasureKeys = [i \in Indices |-> 0]
  /\ rScrollOffset = Num(0)
  /\ pendingChildren = FALSE
  /\ pendingClamp = FALSE
  /\ inCallback = NoCallback
  /\ maxScrollOffset = 0
  /\ rMaxScrollOffset = 0
  /\ rViewportSize = viewportSize
  /\ pendingViewport = FALSE
  /\ pendingMax = FALSE
  /\ prevContentHeightRef = 0
  /\ contentNotice = NoNotice
  /\ internalSelectedIndex = 0
  /\ controlledSelectedIndex = << >>
  /\ rSelectedIndex = 0
  /\ immediates = << >>
  /\ listLast = NoCall
  /\ last = [op |-> "init", arg |-> Num(0), fired |-> << >>, rep |-> FALSE]

NextItemLayout ==
  \/ \E y \in ScrollArgs : ScrollToV2(y)
  \/ RenderV2
  \/ \E i \in (-1) .. MaxLen : GetItemLayout(i)

SpecItemLayout == InitItemLayout /\ [][NextItemLayout]_vars

\* ---- handleMeasure and scroll anchoring of the index-keyed ScrollView
\* a <= b
JsLe(a, b) == JsLt(a, b) \/ (~IsNaN(a) /\ a = b)

\* top += itemHeightsRef.current[i] || 0 for i < index
RECURSIVE TopIn(_, _)
TopIn(hs, index) ==
  IF index <= 0 THEN 0 ELSE TopIn(hs, index - 1) + HeightOf(hs, index - 1)

\* a variant that anchors only when the item ends strictly above the offset
AnchorFires_Strict(oldBottom, prevScrollTop) ==
  JsLt(Num(oldBottom), prevScrollTop)

\* oldBottom <= prevScrollTop
AnchorFires(oldBottom, prevScrollTop) == JsLe(Num(oldBottom), prevScrollTop)

\* handleMeasure(index, height); st = [hs, top, fired]: itemHeights, scrollTop
\* and the onScroll calls so far
HandleMeasureV2(st, index, height) ==
  IF index \notin DOMAIN st.hs \/ st.hs[index] # height
  THEN LET oldHeight == HeightOf(st.hs, index)
           delta == height - oldHeight
           hs1 == SetHeight(st.hs, index, height)
           oldBottom == TopIn(hs1, index) + oldHeight
           newScrollTop == MathMax(Num(0), JsAdd(st.top, Num(delta)))
           moves == /\ AnchorFires(oldBottom, st.top)
                    /\ StrictNeq(newScrollTop, st.top)
       IN [hs |-> hs1,
           top |-> IF moves THEN newScrollTop ELSE st.top,
           fired |-> IF moves THEN Append(st.fired, newScrollTop)
                     ELSE st.fired]
  ELSE st

\* the item layout effects of the indices in S, in index order from i on
RECURSIVE MeasureItemsV2(_, _, _)
MeasureItemsV2(st, S, i) ==
  IF i >= Len(children) THEN st
  ELSE MeasureItemsV2(IF i \in S THEN HandleMeasureV2(st, i, rendered[i])
                      ELSE st,
                      S, i + 1)

\* a commit in which the layout effects of the items in S run (after
\* remeasure(), remeasureItem(i) or a width change), and the re-render their
\* state updates cause
MeasureCommitV2(S) ==
  /\ mounted
  /\ S # {}
  /\ S \subseteq 0 .. (Len(children) - 1)
  /\ LET st1 == MeasureItemsV2([hs |-> itemHeightsRef, top |-> scrollOffset,
                                fired |-> << >>], S, 0)
     IN /\ itemHeightsRef' = st1.hs
        /\ scrollOffset' = st1.top
        /\ rScrollOffset' = st1.top
        /\ contentHeight' = TopIn(st1.hs, Len(children))
        /\ rContentHeight' = TopIn(st1.hs, Len(children))
        /\ last' = Step("measure", Num(0), st1.fired)
  /\ needsRender' = TRUE
  /\ UNCHANGED << envVars, cacheVars, closureVars, extVars, viewportSize,
                  itemMeasureKeys, itemKeysRef, children, rWidth,
                  rMeasureKeys, pendingChildren, pendingClamp, mounted,
                  inCallback >>

\* the index-keyed ScrollView under item height changes
NextAnchor ==
  \/ \E y \in FiniteArgs : ScrollToV2(y)
  \/ RenderV2
  \/ \E k \in Indices : MeasureCommitV2({k})
  \/ MeasureCommitV2(0 .. (Len(children) - 1))
  \/ \E k \in Keys, h \in Heights : ContentResize(k, h)

SpecAnchor == InitItemLayout /\ [][NextAnchor]_vars

\* ============================================ the ControlledScrollView
\* The ControlledScrollView: the scroll offset is a prop; the registry is
\* rebuilt while rendering and the content height is re-summed over it.

\* for (const itemKey of itemKeysRef.current) total += heights[itemKey] || 0
RECURSIVE SumHeights(_, _)
SumHeights(hs, keys) ==
  IF keys = << >> THEN 0
  ELSE HeightOf(hs, Head(keys)) + SumHeights(hs, Tail(keys))

\* handleItemMeasure; st = [hs, ch, fi]
HandleItemMeasureC(st, keys, index, height) ==
  LET key == SlotAt(keys, index) IN
  IF key \notin DOMAIN st.hs \/ st.hs[key] # height
  THEN LET hs1 == SetHeight(st.hs, key, height)
       IN [hs |-> hs1,
           ch |-> SumHeights(hs1, keys),
           fi |-> Min(st.fi, index + 1)]
  ELSE st

RECURSIVE MeasureItemsC(_, _, _, _)
MeasureItemsC(st, keys, kids, idxs) ==
  IF idxs = << >> THEN st
  ELSE MeasureItemsC(
         HandleItemMeasureC(st, keys, Head(idxs), rendered[kids[Head(idxs) + 1]]),
         keys, kids, Tail(idxs))

\* the registry rebuilt while rendering new children
RebuildC(old, kids) ==
  LET hs1 == [k \in Range(kids) |-> HeightOf(old, k)]
  IN [keys |-> kids, hs |-> hs1, ch |-> SumHeights(hs1, kids)]

\* MeasurableItem's deps [index, onMeasure, width, measureKey, children]:
\* a new child element re-runs the effect
RECURSIVE FiringIndicesC(_, _, _)
FiringIndicesC(kids, fresh, i) ==
  IF i >= Len(kids) THEN << >>
  ELSE IF fresh \/ EffectFires(kids, i)
       THEN << i >> \o FiringIndicesC(kids, fresh, i + 1)
       ELSE FiringIndicesC(kids, fresh, i + 1)

\* a variant of the content-height effect that never stores what it reported
ContentHeightEffect_KeepRef(ch, prev) ==
  [fired |-> ch # prev, prev |-> prev]

\* the content-height layout effect with the rendered contentHeight ch and
\* prevContentHeightRef.current = prev
ContentHeightEffect(ch, prev) ==
  IF ch # prev THEN [fired |-> TRUE, prev |-> ch]
  ELSE [fired |-> FALSE, prev |-> prev]

\* render (with the registry rebuild when the children are new), the item
\* layout effects, the content-height effect, measureViewport
CommitC(kids, fresh) ==
  LET rebuilt == fresh \/ ~mounted
      reg == RebuildC(itemHeightsRef, kids)
      keys0 == IF rebuilt THEN reg.keys ELSE itemKeysRef
      ch0 == IF rebuilt THEN reg.ch ELSE contentHeight
      st0 == [hs |-> IF rebuilt THEN reg.hs ELSE itemHeightsRef,
              ch |-> ch0,
              fi |-> IF rebuilt THEN 0 ELSE firstInvalidOffsetIndexRef]
      st1 == MeasureItemsC(st0, keys0, kids, FiringIndicesC(kids, rebuilt, 0))
      runs == ~mounted \/ ch0 # rContentHeight
      eff == IF runs THEN ContentHeightEffect(ch0, prevContentHeightRef)
             ELSE [fired |-> FALSE, prev |-> prevContentHeightRef]
      size == MeasureViewport(viewportSize)
  IN /\ itemKeysRef' = keys0
     /\ itemHeightsRef' = st1.hs
     /\ contentHeight' = st1.ch
     /\ firstInvalidOffsetIndexRef' = st1.fi
     /\ itemOffsetsRef' = IF rebuilt THEN [i \in 1 .. Len(kids) |-> 0]
                          ELSE itemOffsetsRef
     /\ prevContentHeightRef' = eff.prev
     /\ contentNotice' =
          IF eff.fired
          THEN [any |-> TRUE, newHeight |-> ch0,
                previousHeight |-> prevContentHeightRef]
          ELSE contentNotice
     /\ viewportSize' = size
     /\ needsRender' = (st1.ch # ch0 \/ size # viewportSize)
     /\ children' = kids
     /\ rWidth' = viewportSize.width
     /\ rMeasureKeys' = itemMeasureKeys
     /\ rContentHeight' = ch0
     /\ mounted' = TRUE
     /\ last' = Step("commit", Num(0),
                     IF eff.fired THEN << << ch0, prevContentHeightRef >> >>
                     ELSE << >>)
     /\ UNCHANGED << envVars, scrollVars, closureVars, listVars,
                     itemMeasureKeys, rScrollOffset, pendingChildren,
                     pendingClamp, inCallback >>

RenderC ==
  /\ mounted
  /\ needsRender
  /\ CommitC(children, FALSE)

ParentRenderC(kids) == CommitC(kids, TRUE)

\* the ControlledScrollView under short children arrays
NextControlled ==
  \/ RenderC
  \/ \E kids \in SmallSeqs : ParentRenderC(kids)
  \/ \E k \in 0 .. (SmallLen - 1), h \in Heights : ContentResize(k, h)
  \/ \E size \in [width : Widths, height : ViewportHeights] : HostResize(size)

SpecControlled == Init /\ [][NextControlled]_vars

\* ===================================================== the ScrollList
\* The ScrollList wraps the index-keyed ScrollView and adds a selected
\* index. Its handle and its callbacks close over the selectedIndex and the
\* itemCount (Len(children)) of its last render; it scrolls from setImmediate
\* callbacks. Lengths are counted in 1/HalfDivisor of a row, so that the
\* halves of the 'center' alignment are exact.

\* the divisor of itemHeight / 2 and viewportHeight / 2
HalfDivisor == 2
\* setImmediate callbacks that may wait at one time
MaxQueue == 3

Modes == {"auto", "top", "bottom", "center"}
\* the scrollAlignment prop (its default)
ScrollAlignment == "auto"

ListCall(op, arg, ret, notified) ==
  [op |-> op, arg |-> arg, ret |-> ret, notified |-> notified]

\* controlledSelectedIndex ?? internalSelectedIndex
SelectedOf(controlled, internal) ==
  IF controlled = << >> THEN internal ELSE controlled[1]

\* the selectedIndex the next render will see
Selected == SelectedOf(controlledSelectedIndex, internalSelectedIndex)

\* getSelectedIndex() of the handle of the last render
GetSelectedIndex == rSelectedIndex

\* targetScrollOffset of scrollToItem for a layout with top and height
ScrollToItemTarget(top, height, mode, viewportHeight, current) ==
  IF mode = "top" THEN Num(top)
  ELSE IF mode = "bottom" THEN Num(top + height - viewportHeight)
  ELSE IF mode = "center"
  THEN Num(top + (height \div HalfDivisor) - (viewportHeight \div HalfDivisor))
  ELSE IF JsLt(Num(top), current) THEN Num(top)
  ELSE IF JsGt(Num(top + height), JsAdd(current, Num(viewportHeight)))
  THEN Num(top + height - viewportHeight)
  ELSE current

\* Math.max(0, Math.min(targetScrollOffset, maxScrollOffset))
ClampedScrollOffset(index, mode) ==
  MathMax(Num(0),
          MathMin(ScrollToItemTarget(LayoutTop(index),
                                     HeightOf(itemHeightsRef, index), mode,
                                     viewportSize.height, rScrollOffset),
                  Num(MaxScroll)))

\* a variant of the null test that lets an unmeasured item through
HasLayout_InRange(index) == index >= 0 /\ index < Len(children)

\* if (!layout) return
HasLayout(index) == ItemLayout(index) # << >>

\* the body of scrollToItem(index, mode)
ScrollToItemCall(index, mode) ==
  /\ mounted
  /\ IF HasLayout(index)
        /\ StrictNeq(ClampedScrollOffset(index, mode), rScrollOffset)
     THEN ScrollToCallV2(ClampedScrollOffset(index, mode))
     ELSE UNCHANGED << envVars, scrollVars, tableVars, cacheVars, renderVars,
                       closureVars, viewportSize, itemMeasureKeys,
                       needsRender, last >>
  /\ UNCHANGED controlledVars

\* scrollToItem called through the handle
ScrollToItemL(index, mode) ==
  /\ ScrollToItemCall(index, mode)
  /\ listLast' = ListCall("scrollToItem", index, 0, << >>)
  /\ UNCHANGED << internalSelectedIndex, controlledSelectedIndex,
                  rSelectedIndex, immediates >>

\* the first setImmediate callback runs, after React has rendered
RunImmediate ==
  /\ immediates # << >>
  /\ ~needsRender
  /\ ScrollToItemCall(Head(immediates).index, Head(immediates).mode)
  /\ immediates' = Tail(immediates)
  /\ UNCHANGED << internalSelectedIndex, controlledSelectedIndex,
                  rSelectedIndex, listLast >>

\* Math.max(0, Math.min(newIndex, itemCount - 1))
ClampIndex(newIndex) == Max(0, Min(newIndex, Len(children) - 1))

\* a variant that asks for a scroll to the index of the last render
ScrollRequest_Rendered(clampedIndex, mode) ==
  [index |-> rSelectedIndex, mode |-> mode]

\* the call the setImmediate callback of updateSelection makes
ScrollRequest(clampedIndex, mode) == [index |-> clampedIndex, mode |-> mode]

\* updateSelection(newIndex, mode), called by the handle method op
UpdateSelection(op, newIndex, mode) ==
  LET clampedIndex == ClampIndex(newIndex)
      uncontrolled == controlledSelectedIndex = << >>
  IN /\ internalSelectedIndex' =
          IF uncontrolled THEN clampedIndex ELSE internalSelectedIndex
     /\ needsRender' =
          (needsRender \/ (uncontrolled /\ clampedIndex # internalSelectedIndex))
     /\ listLast' = ListCall(op, newIndex, clampedIndex, << clampedIndex >>)
     /\ immediates' = Append(immediates, ScrollRequest(clampedIndex, mode))
     /\ UNCHANGED << envVars, scrollVars, tableVars, cacheVars, renderVars,
                     closureVars, controlledVars, viewportSize,
                     itemMeasureKeys, controlledSelectedIndex, rSelectedIndex,
                     last >>

\* a handle method that returns without calling updateSelection
NoSelection(op) ==
  /\ listLast' = ListCall(op, 0, rSelectedIndex, << >>)
  /\ UNCHANGED << envVars, scrollVars, tableVars, cacheVars, renderVars,
                  closureVars, controlledVars, viewportSize, itemMeasureKeys,
                  needsRender, internalSelectedIndex, controlledSelectedIndex,
                  rSelectedIndex, immediates, last >>

\* room for the callback of a call and for the one of the effect after it
QueueHasRoom == Len(immediates) + 2 <= MaxQueue

Select(index, mode) ==
  /\ mounted
  /\ QueueHasRoom
  /\ UpdateSelection("select", index, mode)

SelectNext ==
  /\ mounted
  /\ QueueHasRoom
  /\ IF rSelectedIndex < Len(children) - 1
     THEN UpdateSelection("selectNext", rSelectedIndex + 1, ScrollAlignment)
     ELSE NoSelection("selectNext")

SelectPrevious ==
  /\ mounted
  /\ QueueHasRoom
  /\ IF rSelectedIndex > 0
     THEN UpdateSelection("selectPrevious", rSelectedIndex - 1, ScrollAlignment)
     ELSE NoSelection("selectPrevious")

SelectFirst ==
  /\ mounted
  /\ QueueHasRoom
  /\ UpdateSelection("selectFirst", 0, "top")

SelectLast ==
  /\ mounted
  /\ QueueHasRoom
  /\ UpdateSelection("selectLast", Len(children) - 1, "bottom")

\* the auto-scroll effect of a render with selectedIndex sel and n items,
\* deps [selectedIndex, scrollToItem, itemCount]: the queue after it
AutoScroll(sel, n) ==
  IF (sel # rSelectedIndex \/ n # Len(children)) /\ sel >= 0 /\ sel < n
  THEN Append(immediates, [index |-> sel, mode |-> ScrollAlignment])
  ELSE immediates

\* React renders the ScrollList and its ScrollView after a state change
RenderL ==
  /\ Len(immediates) < MaxQueue
  /\ RenderCallV2
  /\ rSelectedIndex' = Selected
  /\ immediates' = AutoScroll(Selected, Len(children))
  /\ UNCHANGED << controlledVars, internalSelectedIndex,
                  controlledSelectedIndex, listLast >>

\* the parent renders the ScrollList with its first n children and the
\* selectedIndex prop sel
ParentRenderL(n, sel) ==
  /\ mounted
  /\ Len(immediates) < MaxQueue
  /\ n <= Len(children)
  /\ (sel = << >>) = (controlledSelectedIndex = << >>)
  /\ n # Len(children) \/ sel # controlledSelectedIndex
  /\ LET maxScroll == Max(0, LayoutTop(n) - viewportSize.height)
         sel1 == SelectedOf(sel, internalSelectedIndex)
     IN /\ children' = SubSeq(children, 1, n)
        /\ contentHeight' = LayoutTop(n)
        /\ rContentHeight' = LayoutTop(n)
        /\ controlledSelectedIndex' = sel
        /\ rSelectedIndex' = sel1
        /\ immediates' = AutoScroll(sel1, n)
        /\ rScrollOffset' = scrollOffset
        /\ scrollOffset' = IF JsGt(scrollOffset, Num(maxScroll))
                           THEN Num(maxScroll) ELSE scrollOffset
        /\ needsRender' = (scrollOffset' # scrollOffset)
        /\ last' = Step("commit", Num(0),
                        IF scrollOffset' # scrollOffset
                        THEN << Num(maxScroll) >> ELSE << >>)
  /\ UNCHANGED << envVars, cacheVars, closureVars, controlledVars,
                  viewportSize, itemMeasureKeys, itemHeightsRef, itemKeysRef,
                  rWidth, rMeasureKeys, pendingChildren, pendingClamp,
                  mounted, inCallback, internalSelectedIndex, listLast >>

\* scrollTo through the handle of the ScrollList
ScrollToL(y) ==
  /\ ScrollToCallV2(y)
  /\ UNCHANGED extVars

\* a mounted list of n items in a measured viewport, after its mount
\* callbacks have run; an item may still be unmeasured
InitListState ==
  /\ \E n \in 0 .. MaxLen :
       /\ children = [i \in 1 .. n |-> i - 1]
       /\ \E S \in SUBSET (0 .. (n - 1)) :
            itemHeightsRef \in [S -> {h * HalfDivisor : h \in Heights}]
       /\ controlledSelectedIndex \in {<< >>} \cup {<< 0 >>}
  /\ contentHeight = LayoutTop(Len(children))
  /\ rContentHeight = contentHeight
  /\ \E h \in ViewportHeights :
       /\ viewportSize = [width |-> 1, height |-> h * HalfDivisor]
       /\ hostViewport = viewportSize
  /\ scrollOffset = Num(0)
  /\ itemMeasureKeys = [i \in Indices |-> 0]
  /\ itemKeysRef = << >>
  /\ itemOffsetsRef = << >>
  /\ firstInvalidOffsetIndexRef = 0
  /\ mounted = TRUE
  /\ needsRender = FALSE
  /\ rWidth = 1
  /\ rMeasureKeys = [i \in Indices |-> 0]
  /\ rScrollOffset = Num(0)
  /\ pendingChildren = FALSE
  /\ pendingClamp = FALSE
  /\ inCallback = NoCallback
  /\ maxScrollOffset = 0
  /\ rMaxScrollOffset = 0
  /\ rViewportSize = viewportSize
  /\ pendingViewport = FALSE
  /\ pendingMax = FALSE
  /\ prevContentHeightRef = 0
  /\ contentNotice = NoNotice
  /\ internalSelectedIndex = 0
  /\ rSelectedIndex = 0
  /\ immediates = << >>
  /\ listLast = NoCall
  /\ last = [op |-> "init", arg |-> Num(0), fired |-> << >>, rep |-> FALSE]

\* ... over a host whose item heights the list never reads again
InitList ==
  /\ InitListState
  /\ rendered = [k \in Keys |-> 1]

\* the arguments the model passes to select
SelectArgs == (-1) .. MaxLen

\* scrollToItem and scrollTo through the handle, and the renders after them
NextScrollToItem ==
  \/ \E i \in SelectArgs, mode \in Modes : ScrollToItemL(i, mode)
  \/ RenderL
  \/ \E k \in 0 .. MaxViewport : ScrollToL(Num(k * HalfDivisor))

SpecScrollToItem == InitList /\ [][NextScrollToItem]_vars

\* a short list whose items are all measured
InitSelect ==
  /\ InitList
  /\ Len(children) <= SmallLen
  /\ DOMAIN itemHeightsRef = 0 .. (Len(children) - 1)

\* the selection methods, the callbacks they schedule, and the parent
NextSelect ==
  \/ \E i \in (-1) .. SmallLen, mode \in Modes : Select(i, mode)
  \/ SelectNext
  \/ SelectPrevious
  \/ SelectFirst
  \/ SelectLast
  \/ RunImmediate
  \/ RenderL
  \/ \E n \in 0 .. SmallLen, sel \in {<< >>} \cup {<< i >> : i \in 0 .. SmallLen} :
       ParentRenderL(n, sel)

SpecSelect == InitSelect /\ [][NextSelect]_vars

\* the selection methods under a parent that does not render the list again
NextSelectAlone ==
  \/ \E i \in (-1) .. SmallLen, mode \in Modes : Select(i, mode)
  \/ SelectNext
  \/ SelectPrevious
  \/ SelectFirst
  \/ SelectLast
  \/ RunImmediate
  \/ RenderL

SpecSelectAlone == InitSelect /\ [][NextSelectAlone]_vars

\* ---------------------------------------------- ScrollList and remeasure()
\* remeasure() of the ScrollView of the list: redraw(), the render it causes
\* and that render's layout effects, in which every item is measured again.
\* The viewport measurement is a passive effect of that render; React runs
\* it before the re-render a changed item height causes, otherwise later.
RemeasureL ==
  /\ mounted
  /\ ~needsRender
  /\ ~pendingViewport
  /\ LET st1 == MeasureItemsV2([hs |-> itemHeightsRef, top |-> scrollOffset,
                                fired |-> << >>],
                               0 .. (Len(children) - 1), 0)
         changed == st1.hs # itemHeightsRef
     IN /\ itemHeightsRef' = st1.hs
        /\ scrollOffset' = st1.top
        /\ rScrollOffset' = st1.top
        /\ contentHeight' = TopIn(st1.hs, Len(children))
        /\ rContentHeight' = TopIn(st1.hs, Len(children))
        /\ viewportSize' = IF changed THEN hostViewport ELSE viewportSize
        /\ pendingViewport' = ~changed
        /\ needsRender' = changed
        /\ last' = Step("remeasure", Num(hostViewport.height), st1.fired)
  /\ UNCHANGED << envVars, cacheVars, extVars, maxScrollOffset,
                  rMaxScrollOffset, rViewportSize, pendingMax,
                  itemMeasureKeys, itemKeysRef, children, rWidth,
                  rMeasureKeys, pendingChildren, pendingClamp, mounted,
                  inCallback >>

\* a viewport effect without its dependency list: it is scheduled again by
\* the render its own state update causes
FlushPassiveL_NoDeps ==
  /\ pendingViewport
  /\ viewportSize' = hostViewport
  /\ pendingViewport' = TRUE
  /\ needsRender' = TRUE
  /\ UNCHANGED << envVars, scrollVars, tableVars, cacheVars, renderVars,
                  extVars, maxScrollOffset, rMaxScrollOffset, rViewportSize,
                  pendingMax, itemMeasureKeys, last >>

\* the passive effects of the render remeasure() caused: the viewport is
\* measured and stored as a new object, so React renders again; the clamp
\* effect of the same render still sees the old metrics
FlushPassiveL ==
  /\ pendingViewport
  /\ viewportSize' = hostViewport
  /\ pendingViewport' = FALSE
  /\ needsRender' = TRUE
  /\ UNCHANGED << envVars, scrollVars, tableVars, cacheVars, renderVars,
                  extVars, maxScrollOffset, rMaxScrollOffset, rViewportSize,
                  pendingMax, itemMeasureKeys, last >>

\* React runs the passive effects of the last render before it renders again
RenderAfterPassive == ~pendingViewport /\ RenderL

\* a list whose host layout is the measured one
InitRemeasureList ==
  /\ InitListState
  /\ Len(children) <= SmallLen
  /\ DOMAIN itemHeightsRef = 0 .. (Len(children) - 1)
  /\ rendered = [k \in Keys |-> IF k < Len(children) THEN itemHeightsRef[k]
                                ELSE HalfDivisor]

\* selectNext, selectLast, remeasure() and a host whose layout changes
NextRemeasureList ==
  \/ SelectNext
  \/ SelectLast
  \/ RunImmediate
  \/ RenderAfterPassive
  \/ RemeasureL
  \/ FlushPassiveL
  \/ \E h \in ViewportHeights :
       HostResize([width |-> 1, height |-> h * HalfDivisor])
  \/ \E h \in Heights :
       Len(children) > 0 /\ ContentResize(0, h * HalfDivisor)

SpecRemeasureList == InitRemeasureList /\ [][NextRemeasureList]_vars

\* the same list under a caller that waits for the scheduled scrolls before
\* it selects again
NextSettle ==
  \/ immediates = << >> /\ SelectNext
  \/ immediates = << >> /\ SelectLast
  \/ RunImmediate
  \/ RenderAfterPassive
  \/ RemeasureL
  \/ FlushPassiveL
  \/ \E h \in ViewportHeights :
       HostResize([width |-> 1, height |-> h * HalfDivisor])
  \/ \E h \in Heights :
       Len(children) > 0 /\ ContentResize(0, h * HalfDivisor)

\* what a RunImmediate step does to the queue of callbacks; no other step
\* removes the head of the queue, and RunImmediate is enabled whenever the
\* queue is not empty and no render is outstanding
CallbackRuns ==
  /\ immediates # << >>
  /\ ~needsRender
  /\ immediates' = Tail(immediates)

\* React commits a scheduled render, its scheduler runs the passive effects
\* and Node runs the setImmediate callbacks
SpecSettle ==
  /\ InitRemeasureList
  /\ [][NextSettle]_vars
  /\ WF_immediates(CallbackRuns)
  /\ WF_vars(RenderAfterPassive)
  /\ WF_vars(FlushPassiveL)

\* ================================================================ claims
\* no render and no effect is outstanding
Quiescent == mounted /\ ~needsRender /\ ~pendingChildren /\ ~pendingClamp

\* max(0, contentHeight - viewportHeight)
MaxScrollOffset == Max(0, contentHeight - viewportSize.height)

\* sum of the table heights of the items 0 .. n-1
RECURSIVE SumItemHeights(_)
SumItemHeights(n) ==
  IF n <= 0 THEN 0 ELSE SumItemHeights(n - 1) + GetItemHeight(n - 1)

\* sum of the table entries of the children 0 .. n-1, each under its key
RECURSIVE SumTable(_)
SumTable(n) ==
  IF n <= 0 THEN 0
  ELSE SumTable(n - 1) + HeightOf(itemHeightsRef, children[n])

\* sum of the rendered heights of the children 0 .. n-1
RECURSIVE SumRendered(_)
SumRendered(n) ==
  IF n <= 0 THEN 0 ELSE SumRendered(n - 1) + rendered[children[n]]

IsScrollCall(op) ==
  op \in {"scrollTo", "scrollBy", "scrollToTop", "scrollToBottom"}

\* C1: once a call and the effects it triggers have completed,
\* 0 <= scrollOffset <= max(0, contentHeight - viewportHeight).
C1_OffsetWithinMax ==
  Quiescent =>
    /\ IsFinite(scrollOffset)
    /\ 0 <= scrollOffset.v
    /\ scrollOffset.v <= MaxScrollOffset

\* C2: getItemPosition(i) returns, for every in-range i, the sum of the
\* current heights of the items before i and the current height of item i.
C2_PositionsFresh ==
  \A i \in 0 .. (Len(itemKeysRef) - 1) :
    ItemPosition(i) = << SumItemHeights(i), GetItemHeight(i) >>

\* C3: getContentHeight() is the sum of the table heights of the items of
\* the current sequence.
C3_ContentHeightIsSum ==
  contentHeight = SumTable(Len(children))


\* C4: after a removal or an insertion, once the measurement reports and
\* the rebuild have run, getItemPosition(i) is the rendered height of the
\* item now at i and the sum of the rendered heights before it.
C4_PositionsMatchRendered ==
  Quiescent =>
    \A i \in 0 .. (Len(children) - 1) :
      ItemPosition(i) = << SumRendered(i), rendered[children[i + 1]] >>

\* C5: scrollTo(x) with a finite x sets the offset to
\* min(max(x, 0), max(0, contentHeight - viewportHeight)).
C5_ScrollToClampsToMax ==
  (last.op = "scrollTo" /\ IsFinite(last.arg)) =>
    scrollOffset = Num(Min(Max(last.arg.v, 0), MaxScrollOffset))

\* C6: scrollTo / scrollBy with a non-finite argument leave the offset
\* unchanged and fire no onScroll; the offset never becomes NaN.
C6_NonFiniteRejected ==
  [][(\E x \in {NaN, PosInf, NegInf} : ScrollTo(x) \/ ScrollBy(x)) =>
       /\ scrollOffset' = scrollOffset
       /\ last'.fired = << >>
       /\ ~IsNaN(scrollOffset')]_vars

C8_SnapsToMax ==
  Quiescent => ~JsGt(scrollOffset, Num(MaxScrollOffset))

C11_ScrollByFromCurrent ==
  [][\A d \in FiniteArgs :
       ScrollByV1(d) =>
         scrollOffset' = ScrollToTargetV1(JsAdd(scrollOffset, d))]_vars

\* C12: scrollToBottom() moves the offset to max(0, contentHeight -
\* viewportHeight), which is 0 when the content fits in the viewport;
\* scrollToTop() moves it to 0; scrollToBottom() after a scrollTo of that
\* maximum changes nothing and notifies nobody.
C12_ScrollToEnds ==
  [][/\ ScrollToBottom =>
          /\ scrollOffset' = Num(MaxScrollOffset)
          /\ contentHeight <= viewportSize.height => scrollOffset' = Num(0)
     /\ ScrollToTop => scrollOffset' = Num(0)
     /\ (last.op = "scrollTo" /\ last.arg = Num(MaxScrollOffset)
           /\ ScrollToBottom) =>
          /\ scrollOffset' = scrollOffset
          /\ last'.fired = << >>]_vars

C12_Witness ==
  /\ last.op = "scrollToBottom"
  /\ last.fired = << Num(1) >>
  /\ contentHeight = 2
  /\ viewportSize.height = 1
  /\ scrollOffset = Num(1)

\* C13: a scrollTo(x) that directly follows a scrollTo(x) leaves the offset
\* where the first call put it, and the two calls together notify onScroll
\* at most once.
C13_ScrollToIdempotent ==
  [][\A x \in FiniteArgs :
       (last.op = "scrollTo" /\ last.arg = x /\ ScrollToV1(x)) =>
         /\ scrollOffset' = scrollOffset
         /\ ~(last.fired # << >> /\ last'.fired # << >>)]_vars

\* C14: a step changes the scroll offset exactly when it fires onScroll, and
\* the onScroll of a step carries the offset the step leaves, which differs
\* from the offset before the step.
C14_OnScrollIffChange ==
  [][/\ scrollOffset' # scrollOffset => last'.fired = << scrollOffset' >>
     /\ (last' # last /\ last'.fired # << >>) =>
          /\ last'.fired = << scrollOffset' >>
          /\ scrollOffset' # scrollOffset]_vars

\* C15: once the effects of a commit have run, getMaxScrollOffset() is
\* max(0, contentHeight - getViewportHeight()) for the content height of
\* that commit (the one onContentHeightChange reported).
C15_MaxOffsetFresh ==
  (mounted /\ ~pendingViewport /\ ~pendingMax /\ ~pendingChildren
     /\ ~pendingClamp)
    => GetMaxScrollOffset = Max(0, rContentHeight - GetViewportHeightV1)

\* C16: getItemPosition(i) returns null when i < 0 or i >= the number of
\* items (so for every i when there are none), and leaves the scroll offset,
\* the heights and the content height as they are.
C16_OutOfRangeIsNull ==
  [][\A i \in (-1) .. MaxLen :
       GetItemPosition(i) =>
         /\ (i < 0 \/ i >= Len(children)) => ItemPosition(i) = << >>
         /\ UNCHANGED << scrollOffset, itemHeightsRef, contentHeight >>]_vars

\* C17: when no render and no effect is outstanding, getItemHeight(i) is 0
\* for every i < 0 and every i >= the number of items, whatever the keys.
C17_OutOfRangeHeightIsZero ==
  Quiescent =>
    \A i \in (-1) .. MaxLen :
      (i < 0 \/ i >= Len(children)) => GetItemHeight(i) = 0

\* the rows of [top, bottom) that lie in [scrollOffset, scrollOffset +
\* viewportHeight), counted one by one
RowsInView(top, bottom) ==
  Cardinality({r \in top .. (bottom - 1) :
                 /\ ~JsLt(Num(r), rScrollOffset) /\ ~IsNaN(rScrollOffset)
                 /\ JsLt(Num(r), JsAdd(rScrollOffset, Num(viewportSize.height)))})

\* C18: for a measured item in range, getItemLayout(i) has bottom = top +
\* height, isVisible = (bottom > scrollOffset and top < scrollOffset +
\* viewportHeight), visibleHeight = the number of rows of the item inside
\* the viewport, and visibleTop = max(top, scrollOffset) - scrollOffset,
\* which is not negative.
C18_LayoutFields ==
  \A i \in 0 .. (MaxLen - 1) :
    LET l == ItemLayout(i) IN
    l # << >> =>
      /\ l.bottom = l.top + l.height
      /\ l.isVisible <=>
           /\ JsGt(Num(l.bottom), rScrollOffset)
           /\ JsLt(Num(l.top), JsAdd(rScrollOffset, Num(viewportSize.height)))
      /\ l.visibleHeight = Num(RowsInView(l.top, l.bottom))
      /\ l.visibleTop = JsSub(MathMax(Num(l.top), rScrollOffset), rScrollOffset)
      /\ JsLt(Num(-1), l.visibleTop)

\* the same fields when the scroll offset is a number
C18_LayoutFieldsFinite == IsFinite(rScrollOffset) => C18_LayoutFields

\* C19: the rebuild of the height table on a sequence change leaves one
\* entry per key of the new sequence and no other: the height the table
\* held for the key when the key was already in the old sequence, 0 when
\* the key is new (also when it was removed earlier and is added again).
C19_RebuildKeepsKnownHeights ==
  [][(pendingChildren /\ FlushPassive) =>
       /\ DOMAIN itemHeightsRef' = Range(children)
       /\ \A k \in Range(children) :
            itemHeightsRef'[k] = IF k \in Range(itemKeysRef)
                                 THEN HeightOf(itemHeightsRef, k)
                                 ELSE 0]_vars

\* C20: onItemHeightChange fires only for a measurement that differs from
\* the item's last one. Stated where no child ever changes its rendered
\* height: the render that follows remeasureItem(i), with the width and the
\* content height as the last render saw them, calls onItemHeightChange for
\* no item.
C20_RemeasureUnchangedIsSilent ==
  [][(/\ last.op = "remeasureItem"
      /\ viewportSize.width = rWidth
      /\ contentHeight = rContentHeight
      /\ Render)
       => OnItemHeightChange(children) = << >>]_vars

C22_RemeasureBumpsEveryItem ==
  [][Remeasure =>
       \A i \in 0 .. (Len(children) - 1) :
         itemMeasureKeys'[i] # itemMeasureKeys[i]]_vars

\* C23: once mounted, the stored viewport size changes in a remeasure()
\* call and in no other step.
C23_ViewportOnlyByRemeasure ==
  [][(mounted /\ viewportSize' # viewportSize) => last'.op = "remeasure"]_vars

\* C24: every onContentHeightChange(newHeight, previousHeight) call of the
\* ControlledScrollView has newHeight # previousHeight, its previousHeight is
\* the newHeight of the call before it (0 for the first call), and when no
\* render is outstanding the newHeight of the last call is getContentHeight().
C24_ContentHeightNotices ==
  /\ [][((RenderC \/ \E kids \in SmallSeqs : ParentRenderC(kids))
          /\ last'.fired # << >>) =>
          LET call == last'.fired[1]
          IN /\ call[1] # call[2]
             /\ call[2] = contentNotice.newHeight]_vars
  /\ []((mounted /\ ~needsRender /\ contentNotice.any) =>
          contentNotice.newHeight = contentHeight)

C24_Witness ==
  /\ mounted /\ ~needsRender
  /\ last.op = "commit" /\ last.fired # << >>
  /\ contentNotice.any
  /\ contentNotice.previousHeight > 0
  /\ contentNotice.newHeight > contentNotice.previousHeight
  /\ contentNotice.newHeight = contentHeight

ValidSelection == Selected >= 0 /\ Selected < Len(children)

\* C26: selectNext() at the last index and selectPrevious() at index 0 return
\* the current selected index and change nothing (no selection change, no
\* onSelectionChange call, no scheduled scroll); elsewhere they return the
\* index one further and, when the list owns the selection, move it there.
C26_SelectNextPrevious ==
  [][ValidSelection =>
       /\ SelectNext =>
            IF Selected = Len(children) - 1
            THEN /\ listLast'.ret = Selected
                 /\ listLast'.notified = << >>
                 /\ immediates' = immediates
                 /\ Selected' = Selected
            ELSE /\ listLast'.ret = Selected + 1
                 /\ controlledSelectedIndex = << >> => Selected' = Selected + 1
       /\ SelectPrevious =>
            IF Selected = 0
            THEN /\ listLast'.ret = Selected
                 /\ listLast'.notified = << >>
                 /\ immediates' = immediates
                 /\ Selected' = Selected
            ELSE /\ listLast'.ret = Selected - 1
                 /\ controlledSelectedIndex = << >> => Selected' = Selected - 1]_vars

\* C27: getSelectedIndex() is an index of the list when the list has items
\* and -1 when it has none.
C27_SelectedIndexInRange ==
  IF Len(children) = 0 THEN GetSelectedIndex = -1
  ELSE GetSelectedIndex >= 0 /\ GetSelectedIndex < Len(children)

\* C28: for a measured item in range, scrollToItem(i, mode) leaves the scroll
\* offset at clamp(target, 0, maxScrollOffset), where target is top for
\* 'top', top + height - viewportHeight for 'bottom', top + height/2 -
\* viewportHeight/2 for 'center', and for 'auto' top if top < offset, else
\* bottom - viewportHeight if bottom > offset + viewportHeight, else the
\* offset; an item inside the viewport causes no movement and no onScroll.
C28_ScrollToItemTarget ==
  [][\A i \in SelectArgs, mode \in Modes :
       (ScrollToItemL(i, mode) /\ i >= 0 /\ i < Len(children)
        /\ i \in DOMAIN itemHeightsRef) =>
         LET top == LayoutTop(i)
             height == HeightOf(itemHeightsRef, i)
             vh == viewportSize.height
             offset == scrollOffset.v
             maxOffset == Max(0, LayoutTop(Len(children)) - vh)
             target ==
               IF mode = "top" THEN top
               ELSE IF mode = "bottom" THEN top + height - vh
               ELSE IF mode = "center"
               THEN top + (height \div HalfDivisor) - (vh \div HalfDivisor)
               ELSE IF top < offset THEN top
               ELSE IF top + height > offset + vh THEN top + height - vh
               ELSE offset
         IN /\ scrollOffset' = Num(Max(0, Min(target, maxOffset)))
            /\ (mode = "auto" /\ top >= offset /\ top + height <= offset + vh)
                 => (scrollOffset' = scrollOffset /\ last' = last)]_vars

\* C29: scrollToItem(i, mode) on an index that is out of range, or whose
\* item has not been measured, changes neither the scroll offset nor the
\* selection and makes no onScroll or onSelectionChange call.
C29_ScrollToItemWithoutLayout ==
  [][\A i \in SelectArgs, mode \in Modes :
       (/\ listLast'.op = "scrollToItem"
        /\ listLast'.arg = i
        /\ i < 0 \/ i >= Len(children) \/ i \notin DOMAIN itemHeightsRef
        /\ ScrollToItemL(i, mode)) =>
         /\ UNCHANGED << scrollOffset, internalSelectedIndex,
                         controlledSelectedIndex, rSelectedIndex, immediates,
                         last >>
         /\ listLast'.notified = << >>]_vars

\* scrollToItem(1) was called on a scrolled list whose item 1 is unmeasured
C29_Witness ==
  /\ listLast.op = "scrollToItem"
  /\ listLast.arg = 1
  /\ Len(children) = 3
  /\ 1 \notin DOMAIN itemHeightsRef
  /\ DOMAIN itemHeightsRef = {0, 2}
  /\ last.op = "scrollTo"
  /\ scrollOffset = Num(HalfDivisor)
  /\ ~needsRender

\* isSelectedVisible() of the handle of the last render
IsSelectedVisible ==
  LET layout == ItemLayout(rSelectedIndex)
  IN /\ HasLayout(rSelectedIndex)
     /\ layout.isVisible
     /\ layout.visibleHeight = Num(layout.height)

\* C30: after a selection change, once the scheduled callbacks have run and
\* no render is outstanding, the selected item of a list with a viewport of
\* positive height is visible, and fully visible (isSelectedVisible()) when
\* it is not taller than the viewport.
C30_SelectedItemVisible ==
  (/\ listLast.op # "init"
   /\ ~needsRender
   /\ immediates = << >>
   /\ viewportSize.height > 0
   /\ rSelectedIndex >= 0
   /\ rSelectedIndex < Len(children)) =>
    /\ ItemLayout(rSelectedIndex).isVisible
    /\ ItemLayout(rSelectedIndex).height <= viewportSize.height
         => IsSelectedVisible

\* every scheduled callback has run and no render is outstanding
Settled == ~needsRender /\ immediates = << >>

\* C31: on a list that owns its selection, after selectFirst() and its
\* scheduled callbacks the selected index is 0 and the scroll offset is 0;
\* after selectLast() and its callbacks the selected index is itemCount - 1
\* and the offset is max(0, contentHeight - viewportHeight), also for an
\* item taller than the viewport.
C31_SelectFirstLastAligned ==
  (Settled /\ controlledSelectedIndex = << >> /\ Len(children) > 0) =>
    /\ listLast.op = "selectFirst" =>
         (rSelectedIndex = 0 /\ scrollOffset = Num(0))
    /\ listLast.op = "selectLast" =>
         /\ rSelectedIndex = Len(children) - 1
         /\ scrollOffset =
              Num(Max(0, LayoutTop(Len(children)) - viewportSize.height))

\* a step of one of the five selection methods
IsSelectionCall ==
  \/ SelectFirst
  \/ SelectLast
  \/ SelectNext
  \/ SelectPrevious
  \/ \E i \in (-1) .. SmallLen, mode \in Modes : Select(i, mode)

\* C32: a selection method never moves the scroll offset itself and makes no
\* onScroll call; when it changes the selection it notifies the new index,
\* stores it when the list owns the selection, and schedules exactly one
\* scrollToItem for that index; a new selectedIndex prop that names an item
\* schedules one too. The offset of a list that is not rendered by its parent
\* moves only when a scheduled callback runs.
C32_SelectionThenScroll ==
  [][/\ IsSelectionCall =>
          /\ UNCHANGED << scrollOffset, last >>
          /\ listLast'.notified # << >> =>
               /\ listLast'.notified = << listLast'.ret >>
               /\ controlledSelectedIndex = << >> => Selected' = listLast'.ret
               /\ Len(immediates') = Len(immediates) + 1
               /\ SubSeq(immediates', 1, Len(immediates)) = immediates
               /\ immediates'[Len(immediates')].index = listLast'.ret
          /\ listLast'.notified = << >> => immediates' = immediates
     /\ \A sel \in {<< i >> : i \in 0 .. SmallLen} :
          (ParentRenderL(Len(children), sel) /\ sel[1] < Len(children)) =>
            immediates' = Append(immediates,
                                 [index |-> sel[1], mode |-> ScrollAlignment])
     /\ (scrollOffset' # scrollOffset /\ children' = children) =>
          (immediates # << >> /\ immediates' = Tail(immediates))]_vars

\* selectNext() has moved the selection of the list to 1 and its scroll is
\* still waiting
C32_Witness ==
  /\ listLast = ListCall("selectNext", 1, 1, << 1 >>)
  /\ controlledSelectedIndex = << >>
  /\ internalSelectedIndex = 1
  /\ rSelectedIndex = 0
  /\ immediates = << [index |-> 1, mode |-> ScrollAlignment] >>
  /\ scrollOffset = Num(0)
  /\ Len(children) = 2

\* the offset scrollToItem(index, mode) leads to when it computes with the
\* viewport height of the host
OffsetInHostViewport(index, mode) ==
  IF ~HasLayout(index) THEN scrollOffset
  ELSE MathMax(Num(0),
               MathMin(ScrollToItemTarget(LayoutTop(index),
                                          HeightOf(itemHeightsRef, index),
                                          mode, hostViewport.height,
                                          rScrollOffset),
                       Num(Max(0, contentHeight - hostViewport.height))))

\* C33: a scheduled scroll-into-view that fires after remeasure() computes
\* its target from the item heights, the viewport height and the maximum
\* offset the host layout had at the remeasure() call
C33_ScrollAfterRemeasure ==
  [][(/\ immediates # << >>
      /\ last.op = "remeasure"
      /\ last.arg = Num(hostViewport.height)
      /\ \A i \in 0 .. (Len(children) - 1) :
           HeightOf(itemHeightsRef, i) = rendered[i]
      /\ RunImmediate) =>
       scrollOffset' = OffsetInHostViewport(Head(immediates).index,
                                            Head(immediates).mode)]_vars

\* the reports idxs in the opposite order
RECURSIVE Backwards(_)
Backwards(idxs) ==
  IF idxs = << >> THEN << >> ELSE Backwards(Tail(idxs)) \o << Head(idxs) >>

\* C34: the height reports of one layout pass commute: delivered in index
\* order or in the opposite order they leave the same heights record, the
\* same content height and the same first invalid index (and so, the key
\* registry and the cached offsets being untouched by a report, the same
\* getItemPosition results)
C34_ReportsCommute ==
  (mounted /\ ~inCallback.active /\ ~pendingChildren /\ ~pendingClamp) =>
    \A kids \in KeySeqs :
      LET st0 == [hs |-> itemHeightsRef, ch |-> contentHeight,
                  fi |-> firstInvalidOffsetIndexRef]
          idxs == FiringIndices(kids, 0)
      IN MeasureItems(st0, itemKeysRef, kids, idxs)
           = MeasureItems(st0, itemKeysRef, kids, Backwards(idxs))

\* the sum of the current heights of the items 0 .. i-1
RECURSIVE HeightsBefore(_)
HeightsBefore(i) ==
  IF i <= 0 THEN 0 ELSE HeightsBefore(i - 1) + GetItemHeight(i - 1)

\* the offsets below firstInvalidOffsetIndexRef are the sums of the heights
OffsetCacheValid ==
  /\ firstInvalidOffsetIndexRef >= 0
  /\ firstInvalidOffsetIndexRef <= Len(itemKeysRef)
  /\ \A i \in 0 .. (firstInvalidOffsetIndexRef - 1) :
       /\ i + 1 \in DOMAIN itemOffsetsRef
       /\ itemOffsetsRef[i + 1] = HeightsBefore(i)

\* the least of fi and k+1 for the reported indices k
RECURSIVE LowerBy(_, _)
LowerBy(fi, changes) ==
  IF changes = << >> THEN fi
  ELSE LowerBy(Min(fi, Head(changes)[1] + 1), Tail(changes))

\* C35: the offset cache is valid in every state: firstInvalidIndex lies in
\* 0 .. itemCount and every offset below it is the sum of the current heights
\* before it; a height change of item k lowers firstInvalidIndex to at most
\* k+1, a sequence change sets it to 0, a query for i >= firstInvalidIndex
\* sets it to i+1 and a query below it changes nothing
C35_OffsetCache ==
  [][/\ OffsetCacheValid
     /\ OffsetCacheValid'
     /\ (Render \/ \E kids \in KeySeqs : ParentRender(kids)) =>
          firstInvalidOffsetIndexRef' =
            LowerBy(firstInvalidOffsetIndexRef, OnItemHeightChange(children'))
     /\ (pendingChildren /\ FlushPassive) => firstInvalidOffsetIndexRef' = 0
     /\ \A i \in 0 .. (Len(itemKeysRef) - 1) :
          GetItemPosition(i) =>
            IF i >= firstInvalidOffsetIndexRef
            THEN firstInvalidOffsetIndexRef' = i + 1
            ELSE UNCHANGED cacheVars]_vars

\* the largest offset the rendered content of the children allows
RenderedMaxOffset ==
  Max(0, SumRendered(Len(children)) - viewportSize.height)

\* C36: a render or an effect pass after a change of the item sequence moves
\* the scroll offset only to clamp it: an offset that lies within the bounds
\* of the new content stays what it was and no onScroll is made
C36_SequenceChangeOnlyClamps ==
  [][(/\ last'.op \in {"commit", "effects"}
      /\ IsFinite(scrollOffset)
      /\ scrollOffset.v >= 0
      /\ scrollOffset.v <= RenderedMaxOffset'
      /\ (FlushPassive \/ Render \/ \E kids \in SmallSeqs : ParentRender(kids)))
       => (scrollOffset' = scrollOffset /\ last'.fired = << >>)]_vars

\* C37: with item heights, viewport height and scrollTo arguments that are
\* whole rows, the scroll offset is a whole number of rows in every state
\* (the list counts in half rows, so a whole row is a multiple of
\* HalfDivisor)
C37_OffsetIsInteger ==
  /\ IsFinite(scrollOffset)
  /\ scrollOffset.v % HalfDivisor = 0

\* a step of the chain of effects: a render, a passive effect pass or a
\* scheduled callback
EffectStep == RunImmediate \/ RenderAfterPassive \/ FlushPassiveL

\* nothing of the chain of effects is outstanding
ChainDone == ~needsRender /\ ~pendingViewport /\ immediates = << >>

SlotsDistinct ==
  \A i, j \in 0 .. (Len(children) - 1) :
    i # j => SlotAt(itemKeysRef, i) # SlotAt(itemKeysRef, j)

\* every report of the sequence is for an index without a registered key
AllUnregistered(changes) ==
  /\ changes # << >>
  /\ \A n \in 1 .. Len(changes) : changes[n][1] >= Len(itemKeysRef)

\* C39: no two items of the current sequence share a slot of the heights
\* record, and a layout pass whose reports are all for indices without a
\* registered key changes neither the height of a registered item nor the
\* content height
C39_SlotsAreSeparate ==
  [][/\ SlotsDistinct'
     /\ (/\ last'.op = "commit"
         /\ AllUnregistered(OnItemHeightChange(children'))
         /\ (Render \/ \E kids \in KeySeqs : ParentRender(kids)))
        => /\ contentHeight' = contentHeight
           /\ \A i \in 0 .. (Len(itemKeysRef) - 1) :
                HeightOf(itemHeightsRef', SlotAt(itemKeysRef, i))
                  = HeightOf(itemHeightsRef, SlotAt(itemKeysRef, i))]_vars

====
